---- MODULE Spec2Model ----
(***************************************************************************)
(* Ventashop: the cart / line item / order bookkeeping of                  *)
(* ventashop/models.py, as a state machine over the database rows.         *)
(* Every operation is one request: it loads the rows it works on, runs     *)
(* the model method to its end and stores the result.                      *)
(***************************************************************************)
EXTENDS Integers, FiniteSets, Sequences, TLC

\* ---------------------------------------------------------------- bounds
MaxLineItems == 2          \* line item ids handed out (autoincrement, never reused)
MaxOrders    == 1          \* orders created
MaxQuantity  == 1500       \* cap on a stored quantity reached by additions
MaxCarts     == 2          \* cart pks the database can hand out

\* ---------------------------------------------------------------- inputs
Accounts   == {1, 2}               \* CustomerAccount ids
Products   == {1, 2}               \* Product ids
Prices     == {0, 1}               \* Product.price values (DecimalField, no validator)
Repriced   == {1}                  \* the products whose price the admin edits
Quantities == {-500, 500, 1000}    \* quantity arguments of the cart views
None       == 0                    \* a null foreign key / no returned object

VARIABLES
    productPrice,   \* Product.price, per product
    carts,          \* Cart rows: pk -> [total_price, customer_account]
    lineItems,      \* LineItem rows: pk -> [product, quantity, price, cart, order]
    nextLineItem,   \* next LineItem pk
    orders,         \* Order rows: sequence (index = pk) of [total_price, customer_account]
    comments,       \* Comment rows: sequence (index = pk) of the order pk
    last            \* the last operation run, its arguments and its result

vars == <<productPrice, carts, lineItems, nextLineItem, orders, comments, last>>

\* ---------------------------------------------------------------- helpers
RECURSIVE SumPrices(_, _)
SumPrices(items, ids) ==
    IF ids = {} THEN 0
    ELSE LET i == CHOOSE x \in ids : TRUE
         IN  items[i].price + SumPrices(items, ids \ {i})

CartItems(items, c)  == {i \in DOMAIN items : items[i].cart = c}
OrderItems(items, o) == {i \in DOMAIN items : items[i].order = o}

\* Cart.calculate_total_price
CartCalculateTotalPrice(items, c) == SumPrices(items, CartItems(items, c))

OrderTotal_NotRecomputed(items, o) == 0
\* Order.calculate_total_price
OrderCalculateTotalPrice(items, o) == SumPrices(items, OrderItems(items, o))

LineItemSave_NoMinimum(li) ==
    [li EXCEPT !.price = productPrice[li.product] * li.quantity]
\* LineItem.save: quantity raised to 1000, price = product.price * quantity
LineItemSave(li) ==
    LET q == IF li.quantity < 1000 THEN 1000 ELSE li.quantity
    IN  [li EXCEPT !.quantity = q, !.price = productPrice[li.product] * q]

\* the row LineItem.objects.create(product=p, cart=c) stores (quantity default 1000)
NewLineItem(p, c) ==
    LineItemSave([product |-> p, quantity |-> 1000, price |-> 0, cart |-> c, order |-> None])

Lookup_AlwaysEmpty(items, p, c) == {}
\* the rows matched by the lookup (product=p, cart=c) of get_or_create / update_or_create
Lookup(items, p, c) == {i \in DOMAIN items : items[i].product = p /\ items[i].cart = c}

BelowMinimum_OnlyNegative(quantity) == quantity < 0
\* the guard "quantity < 1000" on a line item add_line_item has just created
BelowMinimum(quantity) == quantity < 1000

CartIsEmpty_Never(total) == FALSE
\* the guard "self.total_price == 0" of make_order
CartIsEmpty(total) == total = 0

Relink_KeepCart(li, o) == [li EXCEPT !.order = o]
\* make_order's loop body before li.save(): li.order = order; li.cart = None
Relink(li, o) == [li EXCEPT !.order = o, !.cart = None]

OrderAccount_Unset(c) == None
\* make_order: order.customer_account = self.customer_account
OrderAccount(c) == carts[c].customer_account

\* Cart.save on cart c, the line items being `items`
CartSave(items, c) ==
    [carts EXCEPT ![c].total_price = CartCalculateTotalPrice(items, c)]

Without(items, ids) == [i \in (DOMAIN items) \ ids |-> items[i]]
With(items, i, li)  == [j \in (DOMAIN items) \cup {i} |-> IF j = i THEN li ELSE items[j]]

\* what `last` records: the method run, its cart (or, for create_cart, its account),
\* its arguments, what it returned
Op(op, c, p, q, r) ==
    [op |-> op, account |-> None, cart |-> c, product |-> p, quantity |-> q, result |-> r]

\* the reverse one-to-one accessor self.cart of account a: the Cart rows pointing at it
AccountCarts(a) == {c \in DOMAIN carts : carts[c].customer_account = a}

NewCart_NoAccount(a) == [total_price |-> 0, customer_account |-> None]
\* the row Cart.objects.create(customer_account=self) stores (Cart.save: no line
\* item points at the new cart, so the total is 0)
NewCart(a) == [total_price |-> 0, customer_account |-> a]

\* the pk the database gives the cart created for account a: some pk not in use
\* (nothing reads a cart's pk but the foreign keys pointing at it, so the model
\* names the fresh pk after the account when that pk is free)
FreshCartPk(a) ==
    IF a \in (1..MaxCarts) \ DOMAIN carts THEN a
    ELSE CHOOSE k \in (1..MaxCarts) \ DOMAIN carts : TRUE

\* ---------------------------------------------------------------- Init
Init ==
    /\ productPrice = [p \in Products |-> 1]
    /\ carts = [c \in {} |-> 0]
    /\ lineItems = [i \in {} |-> 0]
    /\ nextLineItem = 1
    /\ orders = <<>>
    /\ comments = <<>>
    /\ last = Op("init", None, None, 0, "")

\* ---------------------------------------------------------------- actions

\* Product.save with a new price (the admin's product form)
SetProductPrice(p, v) ==
    /\ p \in Repriced
    /\ productPrice[p] # v
    /\ productPrice' = [productPrice EXCEPT ![p] = v]
    /\ last' = Op("set_price", None, p, 0, "")
    /\ UNCHANGED <<carts, lineItems, nextLineItem, orders, comments>>

\* CustomerAccount.create_cart
CreateCart(a) ==
    /\ UNCHANGED <<productPrice, lineItems, nextLineItem, orders, comments>>
    /\ IF AccountCarts(a) # {}
       THEN \* self.cart exists: nothing to do
            /\ UNCHANGED carts
            /\ last' = [Op("create_cart", None, None, 0, "kept") EXCEPT !.account = a]
       ELSE IF \E c \in DOMAIN carts : carts[c].customer_account = NewCart(a).customer_account
       THEN \* the one-to-one column is unique: the insert raises IntegrityError
            /\ UNCHANGED carts
            /\ last' = [Op("create_cart", None, None, 0, "raised") EXCEPT !.account = a]
       ELSE /\ (1..MaxCarts) \ DOMAIN carts # {}
            /\ carts' = [c \in (DOMAIN carts) \cup {FreshCartPk(a)} |->
                            IF c \in DOMAIN carts THEN carts[c] ELSE NewCart(a)]
            /\ last' = [Op("create_cart", None, None, 0, "created") EXCEPT !.account = a]

\* Cart.add_line_item
AddLineItem(c, p, quantity) ==
    LET found == Lookup(lineItems, p, c) IN
    /\ c \in DOMAIN carts
    /\ UNCHANGED <<productPrice, orders, comments>>
    /\ IF Cardinality(found) > 1
       THEN \* get_or_create raises MultipleObjectsReturned
            /\ UNCHANGED <<carts, lineItems, nextLineItem>>
            /\ last' = Op("add_line_item", c, p, quantity, "raised")
       ELSE IF found # {}
       THEN \* not created: li.quantity += quantity; li.save(); self.save()
            LET i     == CHOOSE x \in found : TRUE
                li    == LineItemSave([lineItems[i] EXCEPT !.quantity = @ + quantity])
                items == With(lineItems, i, li)
            IN  /\ lineItems[i].quantity + quantity <= MaxQuantity
                /\ lineItems' = items
                /\ carts' = CartSave(items, c)
                /\ UNCHANGED nextLineItem
                /\ last' = Op("add_line_item", c, p, quantity, "added")
       ELSE \* created (stored with the default quantity)
            LET i == nextLineItem IN
            /\ nextLineItem <= MaxLineItems
            /\ nextLineItem' = nextLineItem + 1
            /\ IF BelowMinimum(quantity)
               THEN \* li.delete(); return
                    /\ UNCHANGED <<carts, lineItems>>
                    /\ last' = Op("add_line_item", c, p, quantity, "aborted")
               ELSE LET li    == LineItemSave([NewLineItem(p, c) EXCEPT !.quantity = quantity])
                        items == With(lineItems, i, li)
                    IN  /\ lineItems' = items
                        /\ carts' = CartSave(items, c)
                        /\ last' = Op("add_line_item", c, p, quantity, "created")

\* Cart.update_line_item
UpdateLineItem(c, p, quantity) ==
    LET found == Lookup(lineItems, p, c) IN
    /\ c \in DOMAIN carts
    /\ UNCHANGED <<productPrice, orders, comments>>
    /\ IF quantity < 1000
       THEN \* return
            /\ UNCHANGED <<carts, lineItems, nextLineItem>>
            /\ last' = Op("update_line_item", c, p, quantity, "aborted")
       ELSE IF Cardinality(found) > 1
       THEN \* update_or_create raises MultipleObjectsReturned
            /\ UNCHANGED <<carts, lineItems, nextLineItem>>
            /\ last' = Op("update_line_item", c, p, quantity, "raised")
       ELSE IF found # {}
       THEN LET i     == CHOOSE x \in found : TRUE
                li    == LineItemSave([lineItems[i] EXCEPT !.quantity = quantity])
                items == With(lineItems, i, li)
            IN  /\ lineItems' = items
                /\ carts' = CartSave(items, c)
                /\ UNCHANGED nextLineItem
                /\ last' = Op("update_line_item", c, p, quantity, "updated")
       ELSE LET i     == nextLineItem
                li    == LineItemSave([NewLineItem(p, c) EXCEPT !.quantity = quantity])
                items == With(lineItems, i, li)
            IN  /\ nextLineItem <= MaxLineItems
                /\ nextLineItem' = nextLineItem + 1
                /\ lineItems' = items
                /\ carts' = CartSave(items, c)
                /\ last' = Op("update_line_item", c, p, quantity, "created")

\* Cart.remove_line_item: line_item is any stored LineItem row
RemoveLineItem(c, i) ==
    LET items == Without(lineItems, {i}) IN
    /\ c \in DOMAIN carts
    /\ i \in DOMAIN lineItems
    /\ lineItems' = items
    /\ carts' = CartSave(items, c)
    /\ last' = Op("remove_line_item", c, None, 0, "")
    /\ UNCHANGED <<productPrice, nextLineItem, orders, comments>>

\* Cart.empty_cart
EmptyCart(c) ==
    LET items == Without(lineItems, CartItems(lineItems, c)) IN
    /\ c \in DOMAIN carts
    /\ lineItems' = items
    /\ carts' = CartSave(items, c)
    /\ last' = Op("empty_cart", c, None, 0, "")
    /\ UNCHANGED <<productPrice, nextLineItem, orders, comments>>

\* Cart.make_order
MakeOrder(c) ==
    /\ c \in DOMAIN carts
    /\ UNCHANGED <<productPrice, nextLineItem>>
    /\ IF CartIsEmpty(carts[c].total_price)
       THEN \* return (no order)
            /\ UNCHANGED <<carts, lineItems, orders, comments>>
            /\ last' = Op("make_order", c, None, 0, None)
       ELSE LET o     == Len(orders) + 1       \* Order.objects.create()
                moved == CartItems(lineItems, c)
                items == [i \in DOMAIN lineItems |->
                            IF i \in moved THEN LineItemSave(Relink(lineItems[i], o))
                                           ELSE lineItems[i]]
            IN  /\ Len(orders) < MaxOrders
                /\ comments' = Append(comments, o)     \* order.add_comment()
                /\ lineItems' = items
                \* order.save()
                /\ orders' = Append(orders,
                                [total_price      |-> OrderCalculateTotalPrice(items, o),
                                 customer_account |-> OrderAccount(c)])
                /\ carts' = CartSave(items, c)         \* self.save()
                /\ last' = Op("make_order", c, None, 0, o)

Next ==
    \/ \E p \in Products, v \in Prices : SetProductPrice(p, v)
    \/ \E a \in Accounts : CreateCart(a)
    \/ \E c \in DOMAIN carts, p \in Products, q \in Quantities : AddLineItem(c, p, q)
    \/ \E c \in DOMAIN carts, p \in Products, q \in Quantities : UpdateLineItem(c, p, q)
    \/ \E c \in DOMAIN carts, i \in DOMAIN lineItems : RemoveLineItem(c, i)
    \/ \E c \in DOMAIN carts : EmptyCart(c)
    \/ \E c \in DOMAIN carts : MakeOrder(c)

Spec == Init /\ [][Next]_vars

\* ---------------------------------------------------------------- views
\* what a cart shows: its line items with quantity and price, and its stored total
CartView(c) ==
    [items |-> [i \in CartItems(lineItems, c) |->
                    [product  |-> lineItems[i].product,
                     quantity |-> lineItems[i].quantity,
                     price    |-> lineItems[i].price]],
     total |-> carts[c].total_price]

\* what an order shows: its line items with quantity and price, and its stored total
OrderView(o) ==
    [items |-> [i \in OrderItems(lineItems, o) |->
                    [product  |-> lineItems[i].product,
                     quantity |-> lineItems[i].quantity,
                     price    |-> lineItems[i].price]],
     total |-> orders[o].total_price]

CartOps == {"add_line_item", "update_line_item", "remove_line_item", "empty_cart", "make_order"}

\* ---------------------------------------------------------------- claims

\* C1: every stored line item is attached to exactly one of a cart or an order,
\* never to both and never to neither.
C1_ExactlyOneOwner ==
    \A i \in DOMAIN lineItems :
        (lineItems[i].cart # None) # (lineItems[i].order # None)

\* C1 witness: a checkout has run, and line items of both kinds are stored.
C1_Witness ==
    /\ \E i \in DOMAIN lineItems : lineItems[i].order # None /\ lineItems[i].cart = None
    /\ \E i \in DOMAIN lineItems : lineItems[i].cart # None /\ lineItems[i].order = None

\* C2: after every completed cart operation every cart's stored total_price is the
\* sum of the stored prices of the line items attached to it.
C2_EveryCartTotalInStep ==
    last.op \in CartOps =>
        \A c \in DOMAIN carts :
            carts[c].total_price =
                SumPrices(lineItems, {i \in DOMAIN lineItems : lineItems[i].cart = c})

\* C3: every stored line item has quantity >= 1000, whatever quantity was handed to
\* add_line_item or update_line_item.
C3_MinimumQuantity ==
    \A i \in DOMAIN lineItems : lineItems[i].quantity >= 1000

\* C3 witness: add_line_item has added a negative increment to a stored line item,
\* which now stands at exactly 1000.
C3_Witness ==
    /\ last.op = "add_line_item" /\ last.result = "added" /\ last.quantity < 0
    /\ \E i \in DOMAIN lineItems :
          /\ lineItems[i].cart = last.cart
          /\ lineItems[i].product = last.product
          /\ lineItems[i].quantity = 1000

\* C4 as claimed: add_line_item with quantity < 1000 leaves the cart's line items,
\* their quantities and prices and the cart's total as they were, whatever the cart holds.
C4_AbortsAlways ==
    [][ \A c \in DOMAIN carts :
            (last'.op = "add_line_item" /\ last'.cart = c /\ last'.quantity < 1000)
                => CartView(c)' = CartView(c) ]_vars

\* C4 as amended: add_line_item with quantity < 1000 on a cart holding no line item
\* for the product leaves the cart's line items, quantities, prices and total as they
\* were (and the stored line items of every other owner too).
C4_AbortsWhenNotInCart ==
    [][ \A c \in DOMAIN carts :
            ( /\ last'.op = "add_line_item" /\ last'.cart = c
              /\ last'.quantity < 1000
              /\ ~ \E i \in DOMAIN lineItems :
                       lineItems[i].product = last'.product /\ lineItems[i].cart = c )
                => /\ CartView(c)' = CartView(c)
                   /\ lineItems' = lineItems ]_vars

\* C4 witness: add_line_item has aborted on a quantity below 1000.
C4_Witness ==
    last.op = "add_line_item" /\ last.quantity < 1000 /\ last.result = "aborted"

\* C5: make_order on a cart whose total_price is 0 returns no order, creates no
\* Order and no Comment, and leaves the cart's line items attached and unchanged.
C5_ZeroTotalAborts ==
    [][ \A c \in DOMAIN carts :
            (last'.op = "make_order" /\ last'.cart = c /\ carts[c].total_price = 0)
                => /\ last'.result = None
                   /\ orders' = orders
                   /\ comments' = comments
                   /\ CartView(c)' = CartView(c)
                   /\ lineItems' = lineItems ]_vars

\* C5 witness: make_order has returned nothing on a cart that holds line items.
C5_Witness ==
    /\ last.op = "make_order" /\ last.result = None
    /\ carts[last.cart].total_price = 0
    /\ CartItems(lineItems, last.cart) # {}

\* C6: once make_order has returned an order, no cart operation changes the order's
\* line items, their quantities or prices, or its stored total_price.
C6_OrderImmutable ==
    [][ \A o \in DOMAIN orders : OrderView(o)' = OrderView(o) ]_vars

\* C7: a successful make_order creates and deletes no line item, attaches exactly the
\* cart's line items to the new order with the cart unset, leaves the cart without
\* line items and with total_price 0, and gives the order the cart's customer_account.
C7_MakeOrderMovesItems ==
    [][ (last'.op = "make_order" /\ carts[last'.cart].total_price # 0)
            => LET c == last'.cart
                   o == last'.result
               IN  /\ o \notin DOMAIN orders /\ o \in DOMAIN orders'
                   /\ DOMAIN lineItems' = DOMAIN lineItems
                   /\ {i \in DOMAIN lineItems' : lineItems'[i].order = o}
                        = {i \in DOMAIN lineItems : lineItems[i].cart = c}
                   /\ \A i \in DOMAIN lineItems' :
                        /\ lineItems'[i].order = o => lineItems'[i].cart = None
                        /\ lineItems'[i].cart # c
                        /\ lineItems'[i].product = lineItems[i].product
                        /\ lineItems[i].cart # c => lineItems'[i] = lineItems[i]
                   /\ carts'[c].total_price = 0
                   /\ orders'[o].customer_account = carts[c].customer_account ]_vars

\* C7 witness: make_order has returned an order that holds line items.
C7_Witness ==
    /\ last.op = "make_order" /\ last.result # None
    /\ \E i \in DOMAIN lineItems : lineItems[i].order = last.result
    /\ orders[last.result].customer_account = carts[last.cart].customer_account

C9_OrderNotEmpty ==
    (last.op = "make_order" /\ last.result # None)
        => \E i \in DOMAIN lineItems : lineItems[i].order = last.result

\* C10: a cart holds at most one line item per product; add_line_item on a product in
\* the cart adds the quantity to that line item, update_line_item replaces its
\* quantity, and update_line_item creates a line item only for a product not in the cart.
C10_OneLineItemPerProduct ==
    [][ /\ \A c \in DOMAIN carts', p \in Products :
              Cardinality({i \in DOMAIN lineItems' :
                              lineItems'[i].product = p /\ lineItems'[i].cart = c}) <= 1
        /\ \A i \in DOMAIN lineItems :
              ( /\ lineItems[i].product = last'.product
                /\ lineItems[i].cart = last'.cart )
                  => /\ last'.op = "add_line_item"
                        => /\ DOMAIN lineItems' = DOMAIN lineItems
                           /\ lineItems'[i].quantity =
                                IF lineItems[i].quantity + last'.quantity < 1000 THEN 1000
                                ELSE lineItems[i].quantity + last'.quantity
                     /\ (last'.op = "update_line_item" /\ last'.quantity >= 1000)
                        => /\ DOMAIN lineItems' = DOMAIN lineItems
                           /\ lineItems'[i].quantity = last'.quantity
        /\ ( /\ last'.op = "update_line_item" /\ last'.quantity >= 1000
             /\ ~ \E i \in DOMAIN lineItems :
                      lineItems[i].product = last'.product /\ lineItems[i].cart = last'.cart )
              => \E n \in (DOMAIN lineItems') \ (DOMAIN lineItems) :
                    /\ DOMAIN lineItems' = (DOMAIN lineItems) \cup {n}
                    /\ lineItems'[n].product = last'.product
                    /\ lineItems'[n].cart = last'.cart
                    /\ lineItems'[n].quantity = last'.quantity ]_vars

\* C10 witness: add_line_item has added to a line item of a cart holding two products.
C10_Witness ==
    /\ last.op = "add_line_item" /\ last.result = "added"
    /\ Cardinality(CartItems(lineItems, last.cart)) = 2

\* C11: create_cart is idempotent: an account never has more than one cart, has
\* exactly one after create_cart was called on it, keeps that same cart through every
\* later operation, and a repeated create_cart changes no cart, line item or order.
C11_CreateCartIdempotent ==
    [][ \A a \in Accounts :
          /\ Cardinality(AccountCarts(a)') <= 1
          /\ (last'.op = "create_cart" /\ last'.account = a)
                => /\ Cardinality(AccountCarts(a)') = 1
                   /\ last'.result # "raised"
          /\ AccountCarts(a) \subseteq AccountCarts(a)'
          /\ (last'.op = "create_cart" /\ last'.account = a /\ AccountCarts(a) # {})
                => /\ carts' = carts
                   /\ lineItems' = lineItems
                   /\ orders' = orders ]_vars

\* C11 witness: create_cart has been called again on an account whose cart holds
\* line items, after a checkout.
C11_Witness ==
    /\ last.op = "create_cart" /\ last.result = "kept"
    /\ \E c \in AccountCarts(last.account) : CartItems(lineItems, c) # {}
    /\ Len(orders) > 0

====
